---------------------------- MODULE Spec2Model ----------------------------
(***************************************************************************)
(* Model of the generic quantity algebra generated by uom's `system!`      *)
(* macro (src/src/system.rs): the conversion functions from_base, to_base  *)
(* and change_base, and the operator suite of Quantity<D, U, V>.           *)
(*                                                                         *)
(* The macro is instantiated for a system of two base quantities           *)
(*     length: foot, L;   time: second, T;                                 *)
(* The storage type V is modelled in exact arithmetic: a value is a        *)
(* normalised fraction <<n, d>> (d > 0, gcd(n, d) = 1); the outcome of a   *)
(* failing storage operation (division by zero, root of a negative         *)
(* number) is the one value NaN == <<0, 0>>, which every later storage     *)
(* operation passes on.                                                    *)
(***************************************************************************)
EXTENDS Integers, Sequences, FiniteSets, TLC

(***************************************************************************)
(* Bounds of the model.                                                    *)
(***************************************************************************)
\* Dimensions drawn as operands have |L exponent| + |T exponent| <= MaxExp.
MaxExp == 2

\* The integer powers a client raises a quantity to are -MaxPow..MaxPow.
MaxPow == 3

\* A chain of conversion calls is at most MaxConv calls long.
MaxConv == 3

(***************************************************************************)
(* Exact arithmetic of the storage type V and of the conversion factor     *)
(* type V::T.                                                              *)
(***************************************************************************)
Abs(n) == IF n < 0 THEN -n ELSE n

RECURSIVE Gcd(_, _)
Gcd(a, b) == IF b = 0 THEN a ELSE Gcd(b, a % b)

NaN == <<0, 0>>

IsNaN(x) == x[2] = 0

\* The fraction n/d (d # 0) in normal form.
Norm(n, d) ==
    LET g == Gcd(Abs(n), Abs(d))
        s == IF d < 0 THEN -1 ELSE 1
    IN  <<s * (n \div g), s * (d \div g)>>

Zero == <<0, 1>>

One == <<1, 1>>

VIsZero(x) == x = Zero

VNeg(x) == IF IsNaN(x) THEN NaN ELSE <<-x[1], x[2]>>

VAdd(x, y) ==
    IF IsNaN(x) \/ IsNaN(y) THEN NaN
    ELSE LET g == Gcd(x[2], y[2])
         IN  Norm(x[1] * (y[2] \div g) + y[1] * (x[2] \div g), (x[2] \div g) * y[2])

VSub(x, y) == VAdd(x, VNeg(y))

VMul(x, y) ==
    IF IsNaN(x) \/ IsNaN(y) THEN NaN
    ELSE LET g1 == Gcd(Abs(x[1]), y[2])
             g2 == Gcd(Abs(y[1]), x[2])
         IN  Norm((x[1] \div g1) * (y[1] \div g2), (x[2] \div g2) * (y[2] \div g1))

\* 1/x; the reciprocal of zero is a failure of the storage type.
VRecip(x) ==
    IF IsNaN(x) \/ x[1] = 0 THEN NaN
    ELSE IF x[1] < 0 THEN <<-x[2], -x[1]>> ELSE <<x[2], x[1]>>

VDiv(x, y) == VMul(x, VRecip(y))

\* Integer part of x, rounded toward zero.
Trunc(x) ==
    IF x[1] >= 0 THEN x[1] \div x[2] ELSE -((-x[1]) \div x[2])

\* Rust's %: the remainder has the sign of the dividend; x % 0 fails.
VRem(x, y) ==
    IF IsNaN(x) \/ IsNaN(y) \/ y[1] = 0 THEN NaN
    ELSE VSub(x, VMul(y, <<Trunc(VDiv(x, y)), 1>>))

RECURSIVE NatPow(_, _)
NatPow(x, e) == IF e = 0 THEN One ELSE VMul(x, NatPow(x, e - 1))

\* x raised to the integer power e (a negative power is the reciprocal).
VPowi(x, e) == IF e >= 0 THEN NatPow(x, e) ELSE VRecip(NatPow(x, -e))

RECURSIVE IntPow(_, _)
IntPow(r, k) == IF k = 0 THEN 1 ELSE r * IntPow(r, k - 1)

\* The largest r in lo..hi with r^k <= n, by bisection.
RECURSIVE RootBetween(_, _, _, _)
RootBetween(n, k, lo, hi) ==
    IF lo >= hi THEN lo
    ELSE LET mid == (lo + hi + 1) \div 2
         IN  IF IntPow(mid, k) <= n THEN RootBetween(n, k, mid, hi)
             ELSE RootBetween(n, k, lo, mid - 1)

\* The integer part of the k-th root (k = 2 or 3) of the natural number n;
\* the search stays below the roots of the largest 32-bit integer.
NatRoot(n, k) ==
    LET top == IF k = 2 THEN 46340 ELSE 1290
    IN  RootBetween(n, k, 0, IF n < top THEN n ELSE top)

HasNatRoot(n, k) == IntPow(NatRoot(n, k), k) = n

\* The values whose k-th root is a fraction again (or fails): the inputs on
\* which exact arithmetic can follow the storage type's sqrt and cbrt.
HasExactRoot(x, k) ==
    \/ IsNaN(x)
    \/ (x[1] < 0 /\ k = 2)
    \/ (HasNatRoot(Abs(x[1]), k) /\ HasNatRoot(x[2], k))

\* sqrt of a negative number fails (NAN).
VSqrt(x) ==
    IF IsNaN(x) \/ x[1] < 0 THEN NaN
    ELSE <<NatRoot(x[1], 2), NatRoot(x[2], 2)>>

VCbrt(x) ==
    IF IsNaN(x) THEN NaN
    ELSE IF x[1] < 0 THEN <<-NatRoot(-x[1], 3), NatRoot(x[2], 3)>>
    ELSE <<NatRoot(x[1], 3), NatRoot(x[2], 3)>>


(***************************************************************************)
(* The system of quantities and its units.                                 *)
(***************************************************************************)
\* The ($name: $unit, $symbol;) triples of the macro invocation, in order.
BaseQuantities ==
    << [name |-> "length", unit |-> "foot",   symbol |-> "L"],
       [name |-> "time",   unit |-> "second", symbol |-> "T"] >>

Symbols == {BaseQuantities[i].symbol : i \in 1..Len(BaseQuantities)}

\* trait Unit + Conversion: a unit's abbreviation and its conversion factor
\* to the base unit of its quantity.
LengthUnits ==
    { [abbreviation |-> "ft", conversion |-> <<1, 1>>],
      [abbreviation |-> "yd", conversion |-> <<3, 1>>] }

TimeUnits ==
    { [abbreviation |-> "s",  conversion |-> <<1, 1>>],
      [abbreviation |-> "ds", conversion |-> <<1, 10>>] }

\* trait Units<V>: one base unit per base quantity.
Units == [length : LengthUnits, time : TimeUnits]

\* trait Dimension: one integer exponent per base quantity.
Dimension ==
    {D \in [Symbols -> -MaxExp..MaxExp] : Abs(D["L"]) + Abs(D["T"]) <= MaxExp}

\* DN<N>: the dimension all of whose exponents are N.
DN(N) == [s \in Symbols |-> N]

DimensionOne == DN(0)

\* Conversion::conversion() of a unit.
conversion(N) == N.conversion

\* V::conversion(), the storage type's own factor.
VConversion == One

\* Conversion::into_conversion: a stored value as a conversion factor.
into_conversion(v) == v

\* ConversionFactor::value: a conversion factor as a stored value.
conv_value(t) == t

(***************************************************************************)
(* from_base, to_base, change_base.                                        *)
(***************************************************************************)
\* t $(* U::$name::conversion().powi(D::$symbol::to_i32()))+ from the i-th
\* base quantity on.
RECURSIVE base_factors(_, _, _, _)
base_factors(t, D, U, i) ==
    IF i > Len(BaseQuantities) THEN t
    ELSE LET b == BaseQuantities[i]
         IN  base_factors(VMul(t, VPowi(conversion(U[b.name]), D[b.symbol])),
                          D, U, i + 1)

\* from_base without the division by the unit's factor.
from_base_undivided(D, U, N, v) ==
    conv_value(base_factors(into_conversion(v), D, U, 1))

\* Convert a value from base units to the given unit.
from_base(D, U, N, v) ==
    conv_value(VDiv(base_factors(into_conversion(v), D, U, 1), conversion(N)))

\* to_base without the division by the base units' factors.
to_base_unit_only(D, U, N, v) ==
    conv_value(VDiv(VMul(into_conversion(v), conversion(N)), VConversion))

\* Convert a value from the given unit to base units.
to_base(D, U, N, v) ==
    conv_value(VDiv(VMul(into_conversion(v), conversion(N)),
                    base_factors(VConversion, D, U, 1)))

\* t $(* Ur::$name::conversion().powi(d) / Ul::$name::conversion().powi(d))+
\* from the i-th base quantity on.
RECURSIVE change_base_factors(_, _, _, _, _)
change_base_factors(t, D, Ul, Ur, i) ==
    IF i > Len(BaseQuantities) THEN t
    ELSE LET b == BaseQuantities[i]
             d == D[b.symbol]
         IN  change_base_factors(
                 VDiv(VMul(t, VPowi(conversion(Ur[b.name]), d)),
                      VPowi(conversion(Ul[b.name]), d)),
                 D, Ul, Ur, i + 1)

\* change_base with .powi missing on the divisor.
RECURSIVE change_base_factors_divisor(_, _, _, _, _)
change_base_factors_divisor(t, D, Ul, Ur, i) ==
    IF i > Len(BaseQuantities) THEN t
    ELSE LET b == BaseQuantities[i]
         IN  change_base_factors_divisor(
                 VDiv(VMul(t, VPowi(conversion(Ur[b.name]), D[b.symbol])),
                      conversion(Ul[b.name])),
                 D, Ul, Ur, i + 1)

change_base_divisor(D, Ul, Ur, v) ==
    conv_value(change_base_factors_divisor(into_conversion(v), D, Ul, Ur, 1))

\* change_base converting from the left system to the right one.
change_base_reversed(D, Ul, Ur, v) ==
    conv_value(change_base_factors(into_conversion(v), D, Ur, Ul, 1))

\* Convert a value from one set of base units to a second.
change_base(D, Ul, Ur, v) ==
    conv_value(change_base_factors(into_conversion(v), D, Ul, Ur, 1))

(***************************************************************************)
(* Quantity<D, U, V> and its operator suite.                               *)
(***************************************************************************)
\* struct Quantity: the phantom tags D and U and the stored value.
Quantity(D, U, v) == [dimension |-> D, units |-> U, value |-> v]

\* An impl with a dimension parameter of its own for each operand.
impl_AddSub_two_dimensions(self, rhs) == TRUE

\* impl $AddSubTrait<Quantity<D, Ur, V>> for Quantity<D, Ul, V> (and Rem):
\* one type parameter D is shared by both operands.
impl_AddSub(self, rhs) == self.dimension = rhs.dimension

\* add with the right operand's value taken as it is stored.
add_unconverted(self, rhs) ==
    Quantity(self.dimension, self.units, VAdd(self.value, rhs.value))

add(self, rhs) ==
    Quantity(self.dimension, self.units,
             VAdd(self.value,
                  change_base(self.dimension, self.units, rhs.units, rhs.value)))

\* sub with the right operand's value taken as it is stored.
sub_unconverted(self, rhs) ==
    Quantity(self.dimension, self.units, VSub(self.value, rhs.value))

sub(self, rhs) ==
    Quantity(self.dimension, self.units,
             VSub(self.value,
                  change_base(self.dimension, self.units, rhs.units, rhs.value)))

rem(self, rhs) ==
    Quantity(self.dimension, self.units,
             VRem(self.value,
                  change_base(self.dimension, self.units, rhs.units, rhs.value)))

\* add_assign with the right operand's value taken as it is stored.
add_assign_unconverted(self, rhs) ==
    [self EXCEPT !.value = VAdd(@, rhs.value)]

\* impl $AddSubAssignTrait and RemAssign: only the receiver's value changes.
add_assign(self, rhs) ==
    [self EXCEPT !.value =
        VAdd(@, change_base(self.dimension, self.units, rhs.units, rhs.value))]

sub_assign(self, rhs) ==
    [self EXCEPT !.value =
        VSub(@, change_base(self.dimension, self.units, rhs.units, rhs.value))]

rem_assign(self, rhs) ==
    [self EXCEPT !.value =
        VRem(@, change_base(self.dimension, self.units, rhs.units, rhs.value))]

\* typenum::Sum and typenum::Diff of two dimensions, symbol by symbol.
Sum(Dl, Dr) == [s \in Symbols |-> Dl[s] + Dr[s]]

Diff(Dl, Dr) == [s \in Symbols |-> Dl[s] - Dr[s]]

\* mul with the conversion driven by the left operand's dimension.
mul_left_dimension(self, rhs) ==
    Quantity(Sum(self.dimension, rhs.dimension), self.units,
             VMul(self.value,
                  change_base(self.dimension, self.units, rhs.units, rhs.value)))

\* mul with the right operand's value taken as it is stored.
mul_unconverted(self, rhs) ==
    Quantity(Sum(self.dimension, rhs.dimension), self.units,
             VMul(self.value, rhs.value))

mul(self, rhs) ==
    Quantity(Sum(self.dimension, rhs.dimension), self.units,
             VMul(self.value,
                  change_base(rhs.dimension, self.units, rhs.units, rhs.value)))

\* div that catches a zero divisor and returns zero.
div_checked(self, rhs) ==
    IF change_base(rhs.dimension, self.units, rhs.units, rhs.value) = Zero
    THEN Quantity(Diff(self.dimension, rhs.dimension), self.units, Zero)
    ELSE Quantity(Diff(self.dimension, rhs.dimension), self.units,
                  VDiv(self.value,
                       change_base(rhs.dimension, self.units, rhs.units, rhs.value)))

div(self, rhs) ==
    Quantity(Diff(self.dimension, rhs.dimension), self.units,
             VDiv(self.value,
                  change_base(rhs.dimension, self.units, rhs.units, rhs.value)))

\* sqrt and cbrt without their where clause.
PartialDiv_unchecked(D, P) == TRUE

\* D::$symbol: PartialDiv<P>, for every symbol: the where clause of sqrt
\* (P2) and cbrt (P3).
PartialDiv(D, P) == \A s \in Symbols : D[s] % P = 0

\* typenum::PartialQuot, symbol by symbol.
PartialQuot(D, P) == [s \in Symbols |-> D[s] \div P]

cbrt(self) ==
    Quantity(PartialQuot(self.dimension, 3), self.units, VCbrt(self.value))

sqrt(self) ==
    Quantity(PartialQuot(self.dimension, 2), self.units, VSqrt(self.value))

\* typenum::Prod of a dimension and the integer E.
Prod(D, E) == [s \in Symbols |-> D[s] * E]

\* powi keeping the receiver's dimension.
powi_same_dimension(self, e) ==
    Quantity(self.dimension, self.units, VPowi(self.value, e))

powi(self, e) ==
    Quantity(Prod(self.dimension, e), self.units, VPowi(self.value, e))

\* zero() returning one.
zero_one(D, U) == Quantity(D, U, One)

zero(D, U) == Quantity(D, U, Zero)

is_zero(self) == VIsZero(self.value)

\* impl $MulDivTrait<V> for Quantity<D, U, V>: a quantity times, or divided
\* by, a bare stored value.
mul_V(self, rhs) == Quantity(self.dimension, self.units, VMul(self.value, rhs))

div_V(self, rhs) == Quantity(self.dimension, self.units, VDiv(self.value, rhs))

\* impl $MulDivAssignTrait<V> for Quantity<D, U, V>.
mul_assign(self, rhs) == [self EXCEPT !.value = VMul(@, rhs)]

div_assign(self, rhs) == [self EXCEPT !.value = VDiv(@, rhs)]

\* typenum::Z0.
Z0 == DN(0)

\* impl $MulDivTrait<Quantity<D, U, V>> for V: a bare stored value times, or
\* divided by, a quantity; the dimension is $AddSubAlias<Z0, D::$symbol>.
V_mul(self, rhs) == Quantity(Sum(Z0, rhs.dimension), rhs.units, VMul(self, rhs.value))

\* V / Quantity keeping the quantity's dimension.
V_div_same_dimension(self, rhs) ==
    Quantity(rhs.dimension, rhs.units, VDiv(self, rhs.value))

V_div(self, rhs) == Quantity(Diff(Z0, rhs.dimension), rhs.units, VDiv(self, rhs.value))

\* The storage type's fused multiply-add, x * a + b.
VMulAdd(x, a, b) == VAdd(VMul(x, a), b)

\* Fused multiply-add: the three stored values are combined as they are.
mul_add(self, a, b) ==
    Quantity(Sum(self.dimension, a.dimension), self.units,
             VMulAdd(self.value, a.value, b.value))

\* typenum::Negate, symbol by symbol.
Negate(D) == [s \in Symbols |-> -D[s]]

\* recip keeping the receiver's dimension.
recip_same_dimension(self) ==
    Quantity(self.dimension, self.units, VRecip(self.value))

recip(self) == Quantity(Negate(self.dimension), self.units, VRecip(self.value))

\* neg returning its operand.
neg_unchanged(self) == self

neg(self) == Quantity(self.dimension, self.units, VNeg(self.value))

\* Debug of a stored value.
VFmt(x) ==
    IF IsNaN(x) THEN "NaN"
    ELSE IF x[2] = 1 THEN ToString(x[1])
    ELSE ToString(x[1]) \o "/" \o ToString(x[2])

\* Unit::abbreviation().
abbreviation(N) == N.abbreviation

\* Debug of Quantity with a " {}^{}" for every base quantity.
RECURSIVE fmt_every_exponent(_, _, _)
fmt_every_exponent(f, self, i) ==
    IF i > Len(BaseQuantities) THEN f
    ELSE LET b == BaseQuantities[i]
         IN  fmt_every_exponent(
                 f \o " " \o abbreviation(self.units[b.name]) \o "^"
                   \o ToString(self.dimension[b.symbol]),
                 self, i + 1)

\* $(.and_then(|_| ...))+ of Debug::fmt from the i-th base quantity on: f is
\* what has been written so far.
RECURSIVE fmt_exponents(_, _, _)
fmt_exponents(f, self, i) ==
    IF i > Len(BaseQuantities) THEN f
    ELSE LET b == BaseQuantities[i]
             d == self.dimension[b.symbol]
         IN  fmt_exponents(
                 IF 0 # d
                 THEN f \o " " \o abbreviation(self.units[b.name]) \o "^" \o ToString(d)
                 ELSE f,
                 self, i + 1)

\* Debug::fmt without the test 0 != d.
fmt_all_exponents(self) == fmt_every_exponent(VFmt(self.value), self, 1)

\* Debug::fmt: what the formatter holds after the call.
fmt(self) == fmt_exponents(VFmt(self.value), self, 1)

(***************************************************************************)
(* The state: a client applies one operator of the suite to operands it    *)
(* draws (call1) and then a second operator to the result (call2);         *)
(* written is what the formatter given to Debug::fmt holds.                *)
(* A second client (conv) feeds a value through a chain of calls of the     *)
(* conversion functions.                                                   *)
(***************************************************************************)
VARIABLES call1, call2, conv, written

vars == <<call1, call2, conv, written>>

\* The stored values a client draws.
Values == { <<-2, 1>>, <<0, 1>>, <<9, 4>> }

\* The systems of units a client uses.
UnitSystems ==
    {U \in Units : U.length.abbreviation = "ft" \/ U.time.abbreviation = "s"}

\* The quantities a client draws.
Quantities ==
    {Quantity(D, U, v) : D \in Dimension, U \in UnitSystems, v \in Values}

\* A call of the suite: the operator, its quantity operands (the receiver
\* first), its integer argument (powi), its bare stored value (the scalar
\* forms of * and /), what it returned (for an assigning form: the receiver
\* after the call) and the caller's operands after the call: the operators
\* take their operands by value, and leave the caller's copies alone.
Call(op, args, e, out) ==
    [op |-> op, args |-> args, e |-> e, s |-> Zero, out |-> out, after |-> args]

\* A call of a scalar form, with the bare stored value s.
ScalarCall(op, args, s, out) == [Call(op, args, 0, out) EXCEPT !.s = s]

\* A call of an assigning form (&mut self): the caller's receiver is the
\* assigned one.
Assigning(c) == [c EXCEPT !.after = <<c.out>> \o Tail(c.args)]

NoCall ==
    Call("none", <<>>, 0, zero(DimensionOne, CHOOSE U \in UnitSystems : TRUE))

Init == call1 = NoCall /\ call2 = NoCall /\ conv = <<>> /\ written = ""

\* The first call is recorded in call1, the second in call2.
Record(c) ==
    \/ call1 = NoCall /\ call1' = c /\ UNCHANGED <<call2, conv, written>>
    \/ /\ call1 # NoCall /\ call2 = NoCall /\ call2' = c
       /\ UNCHANGED <<call1, conv, written>>

\* A client makes two calls; one that calls mul_add makes no other.
Done == call1 # NoCall /\ (call2 # NoCall \/ call1.op = "mul_add")

\* The last operand of the first call.
LastOperand == call1.args[Len(call1.args)]

\* The operand pairs of a binary operator: both drawn for the first call;
\* for the second call the first result and the first call's last operand.
Pairs ==
    IF call1 = NoCall THEN Quantities \X Quantities
    ELSE IF call1.args = <<>> THEN {}
    ELSE {<<call1.out, LastOperand>>}

\* After an addition or zero(), a second addition also takes the first
\* result on either side of an operand it draws.
AddPairs ==
    Pairs \cup
        (IF call1.op \in {"add", "zero"}
         THEN ({call1.out} \X Quantities) \cup (Quantities \X {call1.out})
         ELSE {})

\* The receiver of a unary operator: drawn, or the first result.
Receivers == IF call1 = NoCall THEN Quantities ELSE {call1.out}

Add ==
    /\ ~Done
    /\ \E p \in AddPairs :
          /\ impl_AddSub(p[1], p[2])
          /\ Record(Call("add", p, 0, add(p[1], p[2])))

Sub ==
    /\ ~Done
    /\ \E p \in Pairs :
          /\ impl_AddSub(p[1], p[2])
          /\ Record(Call("sub", p, 0, sub(p[1], p[2])))

Rem ==
    /\ ~Done
    /\ \E p \in Pairs :
          /\ impl_AddSub(p[1], p[2])
          /\ Record(Call("rem", p, 0, rem(p[1], p[2])))

\* For an assigning call, out is the receiver after the call.
AddAssign ==
    /\ ~Done
    /\ \E p \in Pairs :
          /\ impl_AddSub(p[1], p[2])
          /\ Record(Assigning(Call("add_assign", p, 0, add_assign(p[1], p[2]))))

SubAssign ==
    /\ ~Done
    /\ \E p \in Pairs :
          /\ impl_AddSub(p[1], p[2])
          /\ Record(Assigning(Call("sub_assign", p, 0, sub_assign(p[1], p[2]))))

RemAssign ==
    /\ ~Done
    /\ \E p \in Pairs :
          /\ impl_AddSub(p[1], p[2])
          /\ Record(Assigning(Call("rem_assign", p, 0, rem_assign(p[1], p[2]))))

\* After a product, a second product also takes the same two operands in
\* the other order.
MulPairs ==
    Pairs \cup
        (IF call1.op = "mul" THEN {<<call1.args[2], call1.args[1]>>} ELSE {})

Mul ==
    /\ ~Done
    /\ \E p \in MulPairs :
          Record(Call("mul", p, 0, mul(p[1], p[2])))

Div ==
    /\ ~Done
    /\ \E p \in Pairs :
          Record(Call("div", p, 0, div(p[1], p[2])))

Sqrt ==
    /\ ~Done
    /\ \E self \in Receivers :
          /\ PartialDiv(self.dimension, 2)
          /\ HasExactRoot(self.value, 2)
          /\ Record(Call("sqrt", <<self>>, 0, sqrt(self)))

Cbrt ==
    /\ ~Done
    /\ \E self \in Receivers :
          /\ PartialDiv(self.dimension, 3)
          /\ HasExactRoot(self.value, 3)
          /\ Record(Call("cbrt", <<self>>, 0, cbrt(self)))

Powi ==
    /\ call1 = NoCall
    /\ \E self \in Quantities, e \in -MaxPow..MaxPow :
          Record(Call("powi", <<self>>, e, powi(self, e)))

ZeroNew ==
    /\ call1 = NoCall
    /\ \E D \in Dimension, U \in UnitSystems :
          Record(Call("zero", <<>>, 0, zero(D, U)))

\* Quantity * V and Quantity / V, as a client's first call.
MulV ==
    /\ call1 = NoCall
    /\ \E self \in Quantities, rhs \in Values :
          Record(ScalarCall("mul_V", <<self>>, rhs, mul_V(self, rhs)))

DivV ==
    /\ call1 = NoCall
    /\ \E self \in Quantities, rhs \in Values :
          Record(ScalarCall("div_V", <<self>>, rhs, div_V(self, rhs)))

\* Quantity *= V and Quantity /= V.
MulAssign ==
    /\ call1 = NoCall
    /\ \E self \in Quantities, rhs \in Values :
          Record(Assigning(ScalarCall("mul_assign", <<self>>, rhs, mul_assign(self, rhs))))

DivAssign ==
    /\ call1 = NoCall
    /\ \E self \in Quantities, rhs \in Values :
          Record(Assigning(ScalarCall("div_assign", <<self>>, rhs, div_assign(self, rhs))))

\* V * Quantity and V / Quantity.
VMulQuantity ==
    /\ call1 = NoCall
    /\ \E self \in Values, rhs \in Quantities :
          Record(ScalarCall("V_mul", <<rhs>>, self, V_mul(self, rhs)))

VDivQuantity ==
    /\ call1 = NoCall
    /\ \E self \in Values, rhs \in Quantities :
          Record(ScalarCall("V_div", <<rhs>>, self, V_div(self, rhs)))

\* The factors a client passes to mul_add: dimensionless ones and those
\* of one base quantity or its inverse.
Factors ==
    {a \in Quantities : Abs(a.dimension["L"]) + Abs(a.dimension["T"]) <= 1}

\* b's type is fixed by self's and a's: its dimension is their Sum.
MulAdd ==
    /\ call1 = NoCall
    /\ \E self \in Quantities, a \in Factors, b \in Quantities :
          /\ b.dimension = Sum(self.dimension, a.dimension)
          /\ Record(Call("mul_add", <<self, a, b>>, 0, mul_add(self, a, b)))

\* The receiver of recip and neg: drawn, or the result of a first call
\* with one operand.
UnaryReceivers ==
    IF call1 = NoCall THEN Quantities
    ELSE IF Len(call1.args) = 1 THEN {call1.out}
    ELSE {}

Recip ==
    /\ ~Done
    /\ \E self \in UnaryReceivers :
          Record(Call("recip", <<self>>, 0, recip(self)))

Neg ==
    /\ ~Done
    /\ \E self \in UnaryReceivers :
          Record(Call("neg", <<self>>, 0, neg(self)))

\* A length in meters, as in the example system of the macro's
\* documentation.
Meter == [abbreviation |-> "m", conversion |-> <<1250, 381>>]

Formatted ==
    Quantities \cup
        {Quantity(D, [U EXCEPT !.length = Meter], <<5, 1>>) :
             D \in {DN(0), [L |-> 1, T |-> 0]}, U \in UnitSystems}

\* Debug::fmt(&self, f) on an empty formatter, as a client's first call.
Fmt ==
    /\ call1 = NoCall
    /\ written = ""
    /\ \E self \in Formatted :
          /\ call1' = Call("fmt", <<self>>, 0, self)
          /\ written' = fmt(self)
          /\ UNCHANGED <<call2, conv>>

Next ==
    \/ Add \/ Sub \/ Rem
    \/ AddAssign \/ SubAssign \/ RemAssign
    \/ Mul \/ Div
    \/ Sqrt \/ Cbrt \/ Powi \/ ZeroNew
    \/ MulV \/ DivV \/ MulAssign \/ DivAssign
    \/ VMulQuantity \/ VDivQuantity
    \/ MulAdd \/ Recip \/ Neg \/ Fmt

Spec == Init /\ [][Next]_vars

(***************************************************************************)
(* The conversion functions, called in a chain: a value converted to base  *)
(* units is converted from base units to some unit, a value in a unit is   *)
(* converted to base units from that unit, a value in one system's base    *)
(* units is changed to another system's.                                   *)
(***************************************************************************)
\* The measurement units N a client converts from and to.
MeasurementUnits == LengthUnits \cup TimeUnits

\* A call of a conversion function: its type parameters (U and N of
\* to_base and from_base, Ul and Ur of change_base), its argument v and
\* what it returned.
ConvCall(fn, D, Ul, Ur, N, v, out) ==
    [fn |-> fn, D |-> D, Ul |-> Ul, Ur |-> Ur, N |-> N, v |-> v, out |-> out]

Last == conv[Len(conv)]

ToBase ==
    /\ Len(conv) < MaxConv
    /\ \/ /\ conv = <<>>
          /\ \E D \in Dimension, U \in UnitSystems,
                N \in MeasurementUnits, v \in Values :
                conv' = <<ConvCall("to_base", D, U, U, N, v, to_base(D, U, N, v))>>
       \/ /\ conv # <<>>
          /\ Last.fn = "from_base"
          /\ conv' = Append(conv,
                 ConvCall("to_base", Last.D, Last.Ul, Last.Ul, Last.N, Last.out,
                          to_base(Last.D, Last.Ul, Last.N, Last.out)))
    /\ UNCHANGED <<call1, call2, written>>

FromBase ==
    /\ Len(conv) < MaxConv
    /\ \/ /\ conv = <<>>
          /\ \E D \in Dimension, U \in UnitSystems,
                N \in MeasurementUnits, v \in Values :
                conv' = <<ConvCall("from_base", D, U, U, N, v, from_base(D, U, N, v))>>
       \/ /\ conv # <<>>
          /\ Last.fn = "to_base"
          /\ \E N \in MeasurementUnits :
                conv' = Append(conv,
                    ConvCall("from_base", Last.D, Last.Ul, Last.Ul, N, Last.out,
                             from_base(Last.D, Last.Ul, N, Last.out)))
    /\ UNCHANGED <<call1, call2, written>>

\* The unit of a dimensionless factor, for the calls that take no N.
NoUnit == [abbreviation |-> "", conversion |-> One]

ChangeBase ==
    /\ Len(conv) < MaxConv
    /\ \/ /\ conv = <<>>
          /\ \E D \in Dimension, Ul \in UnitSystems, Ur \in UnitSystems, v \in Values :
                conv' = <<ConvCall("change_base", D, Ul, Ur, NoUnit, v,
                                   change_base(D, Ul, Ur, v))>>
       \/ /\ conv # <<>>
          /\ Last.fn = "change_base"
          /\ \E Ul \in UnitSystems :
                conv' = Append(conv,
                    ConvCall("change_base", Last.D, Ul, Last.Ul, NoUnit, Last.out,
                             change_base(Last.D, Ul, Last.Ul, Last.out)))
    /\ UNCHANGED <<call1, call2, written>>

NextConv == ToBase \/ FromBase \/ ChangeBase

SpecConv == Init /\ [][NextConv]_vars

(***************************************************************************)
(* Properties of the operator suite (under Spec) and of the conversion     *)
(* functions (under SpecConv).                                             *)
(***************************************************************************)
\* The calls made so far.
Calls == {call1, call2} \ {NoCall}

\* The storage operation behind +, - and % (and their assigning forms).
StorageOp(op, x, y) ==
    CASE op \in {"add", "add_assign"} -> VAdd(x, y)
      [] op \in {"sub", "sub_assign"} -> VSub(x, y)
      [] op \in {"rem", "rem_assign"} -> VRem(x, y)

\* C1: l + r, l - r and l % r of two quantities of dimension D, in units Ul
\* and Ur, have dimension D, the left operand's units Ul, and the value
\* l op change_base<D, Ul, Ur>(r): the right operand is converted into the
\* left operand's base representation and then combined.
C1_ConvertThenCombine ==
    \A c \in Calls :
        c.op \in {"add", "sub", "rem"} =>
            LET l == c.args[1]
                r == c.args[2]
            IN  /\ c.out.dimension = l.dimension
                /\ c.out.dimension = r.dimension
                /\ c.out.units = l.units
                /\ c.out.value =
                       StorageOp(c.op, l.value,
                           change_base(l.dimension, l.units, r.units, r.value))

\* A remainder of operands in different systems of units whose conversion
\* changes the right operand's value and the result.
C1_Witness ==
    /\ call1.op = "add"
    /\ call2.op = "rem"
    /\ call2.args[1].units # call2.args[2].units
    /\ ~IsNaN(call2.out.value)
    /\ call2.out.value # VRem(call2.args[1].value, call2.args[2].value)
    /\ call1.out.value # VAdd(call1.args[1].value, call1.args[2].value)

\* C2: a * b has the exponents Dl + Dr and a / b the exponents Dl - Dr,
\* base quantity by base quantity; the result keeps the left operand's
\* units Ul; its value is a.value * change_base<Dr, Ul, Ur>(b.value), resp.
\* a.value / change_base<Dr, Ul, Ur>(b.value): the conversion is driven by
\* the right operand's dimension.
C2_MulDivClosure ==
    \A c \in Calls :
        c.op \in {"mul", "div"} =>
            LET a == c.args[1]
                b == c.args[2]
                converted == change_base(b.dimension, a.units, b.units, b.value)
            IN  /\ \A s \in Symbols :
                      c.out.dimension[s] =
                          IF c.op = "mul"
                          THEN a.dimension[s] + b.dimension[s]
                          ELSE a.dimension[s] - b.dimension[s]
                /\ c.out.units = a.units
                /\ c.out.value =
                       IF c.op = "mul" THEN VMul(a.value, converted)
                       ELSE VDiv(a.value, converted)

\* A product of operands of different dimensions in different systems of
\* units, where converting by the left operand's dimension would differ.
C2_Witness ==
    /\ call1.op = "mul"
    /\ call1.args[1].dimension # call1.args[2].dimension
    /\ call1.args[1].units # call1.args[2].units
    /\ call1.out.value # VMul(call1.args[1].value, call1.args[2].value)
    /\ call1.out.value # Zero
    /\ call2.op = "div"
    /\ ~IsNaN(call2.out.value)

\* The product, over the base quantities from the i-th on, of
\* (Ur's coefficient / Ul's coefficient) ^ (D's exponent).
RECURSIVE RatioProduct(_, _, _, _)
RatioProduct(D, Ul, Ur, i) ==
    IF i > Len(BaseQuantities) THEN One
    ELSE LET b == BaseQuantities[i]
             ratio == VDiv(Ur[b.name].conversion, Ul[b.name].conversion)
         IN  VMul(VPowi(ratio, D[b.symbol]), RatioProduct(D, Ul, Ur, i + 1))

\* C3: change_base<D, Ul, Ur>(v) is v times, for every base quantity, the
\* ratio (Ur's coefficient / Ul's coefficient) raised to D's exponent: a
\* negative exponent inverts the ratio, an exponent 0 contributes 1.
C3_ChangeBaseRatio ==
    \A i \in DOMAIN conv :
        conv[i].fn = "change_base" =>
            /\ conv[i].out =
                   VMul(conv[i].v, RatioProduct(conv[i].D, conv[i].Ul, conv[i].Ur, 1))
            /\ (conv[i].D = DimensionOne => conv[i].out = conv[i].v)

\* A change of base with a positive and a negative exponent between systems
\* that differ in both base units.
C3_Witness ==
    /\ Len(conv) = 1
    /\ conv[1].fn = "change_base"
    /\ conv[1].D["L"] > 0
    /\ conv[1].D["T"] < 0
    /\ conv[1].Ul.length # conv[1].Ur.length
    /\ conv[1].Ul.time # conv[1].Ur.time
    /\ conv[1].out # conv[1].v

\* C4: from_base<D, U, N1>(to_base<D, U, N1>(v)) = v, and converting v from
\* N1 to base, out to N2 and back from N2 to base gives to_base<D, U, N1>(v)
\* again.
C4_RoundTrip ==
    /\ \A i \in DOMAIN conv :
          (/\ i > 1
           /\ conv[i].fn = "from_base"
           /\ conv[i - 1].fn = "to_base"
           /\ conv[i].N = conv[i - 1].N)
              => conv[i].out = conv[i - 1].v
    /\ \A i \in DOMAIN conv :
          (/\ i > 2
           /\ conv[i].fn = "to_base"
           /\ conv[i - 1].fn = "from_base"
           /\ conv[i - 2].fn = "to_base")
              => conv[i].out = conv[i - 2].out

\* A value taken from a unit N1 to base units that differ from the
\* system's, out to another unit N2 and back to base.
C4_Witness ==
    /\ Len(conv) = 3
    /\ conv[1].fn = "to_base"
    /\ conv[2].fn = "from_base"
    /\ conv[3].fn = "to_base"
    /\ conversion(conv[1].N) # conversion(conv[2].N)
    /\ conv[1].D["L"] # 0
    /\ conv[1].D["T"] # 0
    /\ conv[1].Ul.length.abbreviation = "yd"
    /\ conv[1].out # conv[1].v
    /\ conv[2].out # conv[1].v
    /\ conv[2].out # conv[1].out

\* The product, over the base quantities from the i-th on, of
\* (U's coefficient) ^ (D's exponent).
RECURSIVE UnitsProduct(_, _, _)
UnitsProduct(D, U, i) ==
    IF i > Len(BaseQuantities) THEN One
    ELSE LET b == BaseQuantities[i]
         IN  VMul(VPowi(U[b.name].conversion, D[b.symbol]), UnitsProduct(D, U, i + 1))

\* The units of the source carry one conversion factor each and no offset
\* (conversion() is all to_base and from_base read of a unit): the offset of
\* every unit is zero.
Offset(N) == Zero

\* C5 as stated: to_base is value * scale + offset for the unit's
\* (scale, offset), and from_base is (value - offset) / scale.
C5_AffineUnitOnly ==
    \A i \in DOMAIN conv :
        /\ conv[i].fn = "to_base" =>
               conv[i].out = VAdd(VMul(conv[i].v, conversion(conv[i].N)), Offset(conv[i].N))
        /\ conv[i].fn = "from_base" =>
               conv[i].out = VDiv(VSub(conv[i].v, Offset(conv[i].N)), conversion(conv[i].N))

\* C5, amended: to_base is the linear map value * scale / P and from_base
\* its inverse value * P / scale, where P is the product over the base
\* quantities of (coefficient of U's base unit) ^ (D's exponent); there is
\* no offset: both map 0 to 0.
C5_LinearBaseUnits ==
    \A i \in DOMAIN conv :
        LET P == UnitsProduct(conv[i].D, conv[i].Ul, 1)
        IN  /\ conv[i].fn = "to_base" =>
                   conv[i].out = VDiv(VMul(conv[i].v, conversion(conv[i].N)), P)
            /\ conv[i].fn = "from_base" =>
                   conv[i].out = VDiv(VMul(conv[i].v, P), conversion(conv[i].N))
            /\ (conv[i].fn \in {"to_base", "from_base"} /\ conv[i].v = Zero) =>
                   conv[i].out = Zero

\* A conversion to base units that are not the system's, where the base
\* units' factors change the result.
C5_Witness ==
    /\ Len(conv) = 1
    /\ conv[1].fn = "to_base"
    /\ conv[1].v # Zero
    /\ UnitsProduct(conv[1].D, conv[1].Ul, 1) # One
    /\ conv[1].out # VMul(conv[1].v, conversion(conv[1].N))

Length == [L |-> 1, T |-> 0]

Time == [L |-> 0, T |-> 1]

Velocity == [L |-> 1, T |-> -1]

\* C6: +, -, %, +=, -= and %= are only ever applied to two operands of one
\* and the same dimension, so no call of them meets a mismatch; and the
\* product of a length and a time never has the dimension of a velocity
\* (length^1 time^-1).
C6_SameDimensionOnly ==
    \A c \in Calls :
        /\ c.op \in {"add", "sub", "rem", "add_assign", "sub_assign", "rem_assign"} =>
               /\ c.args[1].dimension = c.args[2].dimension
               /\ c.out.dimension = c.args[1].dimension
        /\ (c.op = "mul" /\ c.args[1].dimension = Length /\ c.args[2].dimension = Time) =>
               c.out.dimension # Velocity

\* A length times a time has been formed: its dimension differs from the
\* operands', no addition of it to an operand exists, and the client went
\* on with a division.
C6_Witness ==
    /\ call1.op = "mul"
    /\ call1.args[1].dimension = Length
    /\ call1.args[2].dimension = Time
    /\ call1.out.dimension = [L |-> 1, T |-> 1]
    /\ ~impl_AddSub(call1.out, call1.args[2])
    /\ call2.op = "div"

\* C7: sqrt (cbrt) is only ever applied to a quantity all of whose exponents
\* are divisible by 2 (3); the result's exponents are the operand's divided
\* by 2 (3), its units are the operand's, and its value is the storage
\* type's root of the operand's value: the sqrt of a negative value fails,
\* otherwise the result is the nonnegative value whose square (the value
\* whose cube) is the operand's.
C7_Roots ==
    \A c \in Calls :
        /\ c.op = "sqrt" =>
               LET self == c.args[1]
               IN  /\ \A s \in Symbols :
                          /\ self.dimension[s] % 2 = 0
                          /\ 2 * c.out.dimension[s] = self.dimension[s]
                   /\ c.out.units = self.units
                   /\ IF IsNaN(self.value) \/ self.value[1] < 0
                      THEN IsNaN(c.out.value)
                      ELSE /\ c.out.value[1] >= 0
                           /\ ~IsNaN(c.out.value)
                           /\ VMul(c.out.value, c.out.value) = self.value
        /\ c.op = "cbrt" =>
               LET self == c.args[1]
               IN  /\ \A s \in Symbols :
                          /\ self.dimension[s] % 3 = 0
                          /\ 3 * c.out.dimension[s] = self.dimension[s]
                   /\ c.out.units = self.units
                   /\ IF IsNaN(self.value)
                      THEN IsNaN(c.out.value)
                      ELSE VMul(c.out.value, VMul(c.out.value, c.out.value)) = self.value

\* The cube root of the cube of a quantity that is not dimensionless.
C7_Witness ==
    /\ call1.op = "powi"
    /\ call1.e = 3
    /\ call2.op = "cbrt"
    /\ call2.out.dimension = call1.args[1].dimension
    /\ call2.out.dimension["L"] # 0
    /\ call2.out.value = <<-2, 1>>

\* C8: powi(e) multiplies every exponent by e, keeps the units and raises
\* the value to the power e; and for a nonnegative a, a.powi(2).sqrt() has
\* a's dimension, units and value.
C8_Powi ==
    /\ \A c \in Calls :
          c.op = "powi" =>
              LET self == c.args[1]
              IN  /\ \A s \in Symbols : c.out.dimension[s] = self.dimension[s] * c.e
                  /\ c.out.units = self.units
                  /\ c.out.value = VPowi(self.value, c.e)
                  /\ (c.e = 2 => c.out.value = VMul(self.value, self.value))
                  /\ (c.e = 0 => c.out.value = One)
                  /\ (c.e = -1 => c.out.value = VRecip(self.value))
    /\ (/\ call1.op = "powi"
        /\ call1.e = 2
        /\ call2.op = "sqrt"
        /\ call1.args[1].value[1] >= 0)
           => call2.out = call1.args[1]

\* The square root of the square of a positive quantity that is not
\* dimensionless.
C8_Witness ==
    /\ call1.op = "powi"
    /\ call1.e = 2
    /\ call2.op = "sqrt"
    /\ call1.args[1].value = <<9, 4>>
    /\ call1.args[1].dimension = Velocity
    /\ call2.out = call1.args[1]

\* C9: q + zero(), with zero() taken in any system of units, has q's units
\* and q's value; zero() has the value 0; is_zero() is true exactly of a
\* stored value 0.
C9_AdditiveIdentity ==
    /\ (/\ call1.op = "zero"
        /\ call2.op = "add"
        /\ call2.args[2] = call1.out)
           => call2.out = call2.args[1]
    /\ \A c \in Calls :
          /\ c.op = "zero" => (c.out.value = <<0, 1>> /\ is_zero(c.out))
          /\ is_zero(c.out) <=> (c.out.value[1] = 0 /\ c.out.value[2] # 0)

\* A nonzero quantity plus a zero() of another system of units.
C9_Witness ==
    /\ call1.op = "zero"
    /\ call2.op = "add"
    /\ call2.args[2] = call1.out
    /\ call2.args[1].units # call1.out.units
    /\ call2.args[1].dimension # DimensionOne
    /\ call2.args[1].value # Zero
    /\ ~is_zero(call2.out)

\* C10: for q1, q2, q3 of one dimension in any systems of units U1, U2, U3,
\* (q1 + q2) + q3 and q1 + (q2 + q3) both have the units U1 and the same
\* value.
C10_Associativity ==
    /\ (/\ call1.op = "add"
        /\ call2.op = "add"
        /\ call2.args[1] = call1.out)
           => LET q1 == call1.args[1]
                  q2 == call1.args[2]
                  q3 == call2.args[2]
              IN  /\ call2.out.units = q1.units
                  /\ call2.out = add(q1, add(q2, q3))
    /\ (/\ call1.op = "add"
        /\ call2.op = "add"
        /\ call2.args[2] = call1.out)
           => LET q1 == call2.args[1]
                  q2 == call1.args[1]
                  q3 == call1.args[2]
              IN  /\ call2.out.units = q1.units
                  /\ call2.out = add(add(q1, q2), q3)

\* q1 + (q2 + q3) with three different systems of units and no zero among
\* the values.
C10_Witness ==
    /\ call1.op = "add"
    /\ call2.op = "add"
    /\ call2.args[2] = call1.out
    /\ call2.args[1].units # call1.args[1].units
    /\ call2.args[1].units # call1.args[2].units
    /\ call1.args[1].units # call1.args[2].units
    /\ call1.args[1].dimension = Velocity
    /\ call2.args[1].value # Zero
    /\ call1.args[1].value # Zero
    /\ call1.args[2].value # Zero
    /\ call2.out.value # VAdd(call2.args[1].value, call1.out.value)

\* C11: self.mul_add(a, b) has the dimension D + Da, self's units, and the
\* value of (self * a) + b formed with the operators * and + of the suite,
\* which convert a and b into self's base units.
C11_MulAddAsOperators ==
    \A c \in Calls :
        c.op = "mul_add" =>
            LET self == c.args[1]
                a == c.args[2]
                b == c.args[3]
            IN  /\ c.out.dimension = Sum(self.dimension, a.dimension)
                /\ c.out.units = self.units
                /\ c.out.value = add(mul(self, a), b).value

\* C11, what mul_add does: the dimension and units are as stated, and the
\* three stored values are fused as they are, whatever units a and b are in;
\* this is (self * a) + b when a and b need no conversion into self's units.
C11_MulAddStoredValues ==
    \A c \in Calls :
        c.op = "mul_add" =>
            LET self == c.args[1]
                a == c.args[2]
                b == c.args[3]
            IN  /\ c.out.dimension = Sum(self.dimension, a.dimension)
                /\ c.out.units = self.units
                /\ c.out.value = VAdd(VMul(self.value, a.value), b.value)
                /\ (a.units = self.units /\ b.units = self.units) =>
                       c.out = add(mul(self, a), b)

\* A mul_add whose operands a and b are in units other than self's, and
\* whose result is not (self * a) + b.
C11_Witness ==
    /\ call1.op = "mul_add"
    /\ call1.args[2].units # call1.args[1].units
    /\ call1.args[3].units # call1.args[1].units
    /\ call1.args[2].dimension = Length
    /\ call1.args[1].dimension = Time
    /\ call1.out.value # add(mul(call1.args[1], call1.args[2]), call1.args[3]).value

\* The call made last.  Every call is the last one in the state it was
\* made in, so what holds of the last call in every state holds of every
\* call.
LastCall == IF call2 # NoCall THEN call2 ELSE call1

\* C12: for a bare stored value s and a quantity q of dimension D in units
\* U: q * s and q / s have dimension D, units U and the value q.value * s,
\* resp. q.value / s; s * q has dimension 0 + D and the value s * q.value;
\* s / q has dimension 0 - D, units U and the value s / q.value.  The values
\* are combined as stored: no unit conversion takes part.
C12_ScalarOperations ==
    LET c == LastCall IN
        LET q == c.args[1]
        IN  /\ c.op = "mul_V" =>
                   c.out = Quantity(q.dimension, q.units, VMul(q.value, c.s))
            /\ c.op = "div_V" =>
                   c.out = Quantity(q.dimension, q.units, VDiv(q.value, c.s))
            /\ c.op = "V_mul" =>
                   /\ \A b \in Symbols : c.out.dimension[b] = 0 + q.dimension[b]
                   /\ c.out.units = q.units
                   /\ c.out.value = VMul(c.s, q.value)
            /\ c.op = "V_div" =>
                   /\ \A b \in Symbols : c.out.dimension[b] = 0 - q.dimension[b]
                   /\ c.out.units = q.units
                   /\ c.out.value = VDiv(c.s, q.value)

\* A bare value divided by a velocity stored in yards and deciseconds,
\* followed by a product with the velocity.
C12_Witness ==
    /\ call1.op = "V_div"
    /\ call1.s = <<9, 4>>
    /\ call1.args[1].dimension = Velocity
    /\ call1.args[1].units.length.abbreviation = "yd"
    /\ call1.args[1].value = <<-2, 1>>
    /\ call1.out.dimension = [L |-> -1, T |-> 1]
    /\ call1.out.value = <<-9, 8>>
    /\ call2.op = "mul"

\* C13: -q has q's dimension and units and the value -(q.value), the value
\* that added to q.value gives 0; and -(-q) is q again.
C13_Negation ==
    /\ LET c == LastCall IN
          c.op = "neg" =>
              LET q == c.args[1]
              IN  /\ c.out.dimension = q.dimension
                  /\ c.out.units = q.units
                  /\ c.out.value = VNeg(q.value)
                  /\ IF IsNaN(q.value) THEN IsNaN(c.out.value)
                     ELSE VAdd(c.out.value, q.value) = Zero
    /\ (/\ call1.op = "neg"
        /\ call2.op = "neg"
        /\ call2.args[1] = call1.out)
           => call2.out = call1.args[1]

\* The negation of the negation of a positive velocity.
C13_Witness ==
    /\ call1.op = "neg"
    /\ call2.op = "neg"
    /\ call1.args[1].value = <<9, 4>>
    /\ call1.args[1].dimension = Velocity
    /\ call1.out.value = <<-9, 4>>
    /\ call2.out = call1.args[1]

\* C14: q.recip() has every exponent of q negated, q's units and the value
\* 1 / q.value; and for a nonzero q, q.recip().recip() is q again.
C14_Reciprocal ==
    /\ LET c == LastCall IN
          c.op = "recip" =>
              LET q == c.args[1]
              IN  /\ \A b \in Symbols : c.out.dimension[b] = -q.dimension[b]
                  /\ c.out.units = q.units
                  /\ c.out.value = VDiv(One, q.value)
                  /\ (~IsNaN(q.value) /\ q.value # Zero) =>
                         VMul(c.out.value, q.value) = One
    /\ (/\ call1.op = "recip"
        /\ call2.op = "recip"
        /\ call2.args[1] = call1.out
        /\ call1.args[1].value # Zero)
           => call2.out = call1.args[1]

\* The reciprocal of the reciprocal of a nonzero velocity.
C14_Witness ==
    /\ call1.op = "recip"
    /\ call2.op = "recip"
    /\ call1.args[1].value = <<9, 4>>
    /\ call1.args[1].dimension = Velocity
    /\ call1.out.dimension = [L |-> -1, T |-> 1]
    /\ call1.out.value = <<4, 9>>
    /\ call2.out = call1.args[1]

\* The operators that return a fresh quantity and take no &mut self.
NonAssigning ==
    {"add", "sub", "rem", "mul", "div", "mul_V", "div_V", "V_mul", "V_div",
     "neg", "recip", "sqrt", "cbrt", "powi", "mul_add"}

\* C15: after a += b, a -= b, a %= b (b a quantity of a's dimension in any
\* units) and a *= s, a /= s (s a bare value) the receiver is what a + b,
\* a - b, a % b, a * s, a / s return: its value is theirs, its dimension and
\* units are unchanged, and b is unchanged; the non-assigning operators
\* leave both of the caller's operands as they were.
C15_CompoundAssignment ==
    LET c == LastCall IN
        /\ c.op \in {"add_assign", "sub_assign", "rem_assign"} =>
               LET a == c.args[1]
                   b == c.args[2]
                   r == CASE c.op = "add_assign" -> add(a, b)
                          [] c.op = "sub_assign" -> sub(a, b)
                          [] c.op = "rem_assign" -> rem(a, b)
               IN  /\ c.after = <<r, b>>
                   /\ c.after[1].dimension = a.dimension
                   /\ c.after[1].units = a.units
        /\ c.op \in {"mul_assign", "div_assign"} =>
               LET a == c.args[1]
                   r == IF c.op = "mul_assign" THEN mul_V(a, c.s) ELSE div_V(a, c.s)
               IN  /\ c.after = <<r>>
                   /\ c.after[1].dimension = a.dimension
                   /\ c.after[1].units = a.units
                   /\ c.after[1].value =
                          IF c.op = "mul_assign" THEN VMul(a.value, c.s)
                          ELSE VDiv(a.value, c.s)
        /\ c.op \in NonAssigning => c.after = c.args

\* a += b with b in other units, so that a's value changes by b converted,
\* followed by a -= b.
C15_Witness ==
    /\ call1.op = "add_assign"
    /\ call1.args[1].units # call1.args[2].units
    /\ call1.args[1].dimension = Velocity
    /\ call1.args[2].value # Zero
    /\ call1.after[1].value # call1.args[1].value
    /\ call1.after[1].value # VAdd(call1.args[1].value, call1.args[2].value)
    /\ call1.after[2] = call1.args[2]
    /\ call2.op = "sub_assign"
    /\ call2.after[1] = call1.args[1]

\* " u^d" for a base quantity of exponent d # 0 whose base unit is
\* abbreviated u, and nothing for d = 0.
Rendered(u, d) == IF d = 0 THEN "" ELSE " " \o u \o "^" \o ToString(d)

\* C16: Debug renders the stored value and then, for length and for time in
\* this order, if the exponent is not 0: a space, the abbreviation of the
\* base unit, '^' and the signed exponent; an exponent 0 adds nothing, a
\* dimensionless quantity renders as its value alone, and a length^1 of
\* value 5 with base unit "m" renders as "5 m^1".
C16_DebugFormat ==
    LET c == LastCall IN
        c.op = "fmt" =>
            LET q == c.args[1]
            IN  /\ written = VFmt(q.value)
                                 \o Rendered(q.units.length.abbreviation, q.dimension["L"])
                                 \o Rendered(q.units.time.abbreviation, q.dimension["T"])
                /\ q.dimension = DimensionOne => written = VFmt(q.value)
                /\ (/\ q.dimension = Length
                    /\ q.value = <<5, 1>>
                    /\ q.units.length.abbreviation = "m") => written = "5 m^1"
                /\ (/\ q.dimension = Velocity
                    /\ q.value = <<-2, 1>>
                    /\ q.units.length.abbreviation = "yd"
                    /\ q.units.time.abbreviation = "s") => written = "-2 yd^1 s^-1"
                /\ c.out = q

\* A length of 5 in a system whose base unit of length is abbreviated "m"
\* has been rendered.
C16_Witness ==
    /\ call1.op = "fmt"
    /\ call1.args[1].dimension = Length
    /\ call1.args[1].value = <<5, 1>>
    /\ call1.args[1].units.length.abbreviation = "m"
    /\ written = "5 m^1"

\* The operators C17 is about.
Suite ==
    {"add", "sub", "mul", "div", "rem", "neg",
     "add_assign", "sub_assign", "rem_assign", "mul_assign", "div_assign"}

\* The right-hand value an operator of the suite hands to the storage
\* type: the right operand converted, or the bare value.
RightValue(c) ==
    CASE c.op \in {"mul_assign", "div_assign"} -> c.s
      [] c.op \in {"mul", "div"} ->
             change_base(c.args[2].dimension, c.args[1].units,
                         c.args[2].units, c.args[2].value)
      [] c.op = "neg" -> c.args[1].value
      [] OTHER ->
             change_base(c.args[1].dimension, c.args[1].units,
                         c.args[2].units, c.args[2].value)

\* C17: every call of add, sub, mul, div, rem, neg or of an assigning form
\* returns (or leaves in the receiver) a Quantity in the receiver's units;
\* its value is a failure exactly when the storage type's own operation
\* fails: an operand that already is a failure, or a division or remainder
\* by a right-hand value that is zero after conversion; the failure is the
\* storage type's, passed on as it is.
C17_Totality ==
    LET c == LastCall IN
        c.op \in Suite =>
            LET right == RightValue(c)
            IN  /\ DOMAIN c.out = {"dimension", "units", "value"}
                /\ c.out.units = c.args[1].units
                /\ \A b \in Symbols : c.out.dimension[b] \in Int
                /\ IsNaN(c.out.value) <=>
                       \/ IsNaN(c.args[1].value)
                       \/ IsNaN(right)
                       \/ /\ c.op \in {"div", "rem", "rem_assign", "div_assign"}
                          /\ right = Zero
                /\ IsNaN(c.out.value) => c.out.value = NaN

\* A division by a quantity whose value is zero has failed in the storage
\* type, and a second operator has passed the failure on.
C17_Witness ==
    /\ call1.op = "div"
    /\ call1.args[1].value = <<9, 4>>
    /\ call1.args[2].value = Zero
    /\ call1.args[1].units # call1.args[2].units
    /\ IsNaN(call1.out.value)
    /\ call2.op = "mul"
    /\ IsNaN(call2.out.value)

\* The change_base call an operator of the suite makes on its right
\* operand: the dimension, the two systems of units and the value passed.
Converted(c) ==
    [D  |-> IF c.op \in {"mul", "div"} THEN c.args[2].dimension
            ELSE c.args[1].dimension,
     Ul |-> c.args[1].units,
     Ur |-> c.args[2].units,
     v  |-> c.args[2].value]

\* The operators that convert their right operand.
Converting ==
    {"add", "sub", "rem", "add_assign", "sub_assign", "rem_assign", "mul", "div"}

\* The plain storage operation behind an operator.
PlainOp(op, x, y) ==
    CASE op \in {"mul"} -> VMul(x, y)
      [] op \in {"div"} -> VDiv(x, y)
      [] OTHER -> StorageOp(op, x, y)

\* C18: change_base<D, U, U>(v) = v for every D, U and v, and
\* change_base<D, Ul, Ur>(v) = v for every Ul, Ur when D is dimension one;
\* so a binary operator on operands of one system of units (or with a
\* dimensionless right operand) is the plain storage operation on the two
\* stored values.
C18_ChangeBaseIdentity ==
    LET c == LastCall IN
        c.op \in Converting =>
            LET k == Converted(c)
            IN  (k.Ul = k.Ur \/ k.D = DimensionOne) =>
                    /\ change_base(k.D, k.Ul, k.Ur, k.v) = k.v
                    /\ c.out.value = PlainOp(c.op, c.args[1].value, c.args[2].value)

\* A product in yards and deciseconds on both sides with a right operand of
\* negative exponents, and then a division of the result by the operand.
C18_Witness ==
    /\ call1.op = "mul"
    /\ call1.args[1].units = call1.args[2].units
    /\ call1.args[1].units.length.abbreviation = "yd"
    /\ call1.args[2].dimension = [L |-> -2, T |-> 0]
    /\ call1.args[2].value = <<9, 4>>
    /\ call1.args[1].value = <<-2, 1>>
    /\ call1.out.value = <<-9, 2>>
    /\ call2.op = "div"
    /\ call2.out.value = <<-2, 1>>

\* C19: change_base<D, A, B>(change_base<D, B, C>(v)) = change_base<D, A, C>(v)
\* for every D, A, B, C and v, and so change_base<D, A, B>(change_base<D, B, A>(v))
\* = v.
C19_ChangeBaseComposes ==
    \A i \in DOMAIN conv :
        (/\ i > 1
         /\ conv[i].fn = "change_base"
         /\ conv[i - 1].fn = "change_base"
         /\ conv[i].D = conv[i - 1].D
         /\ conv[i].Ur = conv[i - 1].Ul
         /\ conv[i].v = conv[i - 1].out)
            => /\ conv[i].out =
                      change_base(conv[i].D, conv[i].Ul, conv[i - 1].Ur, conv[i - 1].v)
               /\ conv[i].Ul = conv[i - 1].Ur => conv[i].out = conv[i - 1].v

\* A value changed from C to B, from B to A (three different systems, both
\* exponents nonzero, every step changing the value) and back from A to B.
C19_Witness ==
    /\ Len(conv) = 3
    /\ \A i \in 1..3 : conv[i].fn = "change_base"
    /\ conv[1].D = Velocity
    /\ conv[1].v = <<9, 4>>
    /\ conv[1].Ul # conv[1].Ur
    /\ conv[2].Ul # conv[1].Ul
    /\ conv[2].Ul # conv[1].Ur
    /\ conv[1].out # conv[1].v
    /\ conv[2].out # conv[1].out
    /\ conv[2].out # conv[1].v
    /\ conv[3].Ul = conv[2].Ur
    /\ conv[3].out = conv[2].v

\* C20: for a of dimension Dl in units Ul and b of dimension Dr in units Ur,
\* a * b and b * a have the same exponents, a * b is in Ul and b * a in Ur,
\* and the value of a * b is change_base<Dl + Dr, Ul, Ur>(value of b * a).
C20_MulCommutes ==
    (/\ call1.op = "mul"
     /\ call2.op = "mul"
     /\ call2.args = <<call1.args[2], call1.args[1]>>)
        => LET a == call1.args[1]
               b == call1.args[2]
           IN  /\ \A s \in Symbols :
                      /\ call1.out.dimension[s] = a.dimension[s] + b.dimension[s]
                      /\ call2.out.dimension[s] = call1.out.dimension[s]
               /\ call1.out.units = a.units
               /\ call2.out.units = b.units
               /\ call1.out.value =
                      change_base(call1.out.dimension, a.units, b.units,
                                  call2.out.value)

\* a * b and b * a for a length and a velocity stored in systems of units
\* that differ, with different stored values for the two products.
C20_Witness ==
    /\ call1.op = "mul"
    /\ call2.op = "mul"
    /\ call2.args = <<call1.args[2], call1.args[1]>>
    /\ call1.args[1].dimension = Length
    /\ call1.args[2].dimension = Velocity
    /\ call1.args[1].units.length # call1.args[2].units.length
    /\ call1.args[1].value = <<9, 4>>
    /\ call1.args[2].value = <<-2, 1>>
    /\ call1.out.value # call2.out.value
    /\ call1.out.value # VMul(call1.args[1].value, call1.args[2].value)
    /\ call2.out.value # VMul(call1.args[1].value, call1.args[2].value)

\* C21: for a in units Ul and b in any units Ur, (a + b) - b is a again (its
\* dimension, its units Ul, its value), b being of a's dimension; and for b
\* of any dimension with a nonzero value, (a * b) / b is a again: exactly
\* a's exponents, units Ul and a's value.
C21_Undo ==
    /\ (/\ call1.op = "add"
        /\ call2.op = "sub"
        /\ call2.args = <<call1.out, call1.args[2]>>)
           => LET a == call1.args[1]
              IN  /\ call2.out.dimension = a.dimension
                  /\ call2.out.units = a.units
                  /\ call2.out.value = a.value
    /\ (/\ call1.op = "mul"
        /\ call2.op = "div"
        /\ call2.args = <<call1.out, call1.args[2]>>
        /\ call1.args[2].value # Zero)
           => LET a == call1.args[1]
              IN  /\ \A s \in Symbols : call2.out.dimension[s] = a.dimension[s]
                  /\ call2.out.units = a.units
                  /\ call2.out.value = a.value

\* (a * b) / b for a length a in feet and a velocity b in yards per second:
\* the product's stored value is neither a's nor the plain product.
C21_Witness ==
    /\ call1.op = "mul"
    /\ call2.op = "div"
    /\ call2.args = <<call1.out, call1.args[2]>>
    /\ call1.args[1].dimension = Length
    /\ call1.args[2].dimension = Velocity
    /\ call1.args[1].units.length.abbreviation = "ft"
    /\ call1.args[2].units.length.abbreviation = "yd"
    /\ call1.args[1].value = <<9, 4>>
    /\ call1.args[2].value = <<-2, 1>>
    /\ call1.out.value # VMul(call1.args[1].value, call1.args[2].value)
    /\ call2.out = call1.args[1]

=============================================================================
